---- MODULE Spec2Model ----
(***************************************************************************)
(* Model of yolov5/core/evaluator.py: the matcher (process_batch,          *)
(* process_batch_masks), the per-image stat recorder (compute_stat), the   *)
(* aggregation step (after_infer), the Metric / Metrics classes and the    *)
(* run_training loop of Yolov5Evaluator.                                   *)
(*                                                                         *)
(* Conventions.  IoU values and thresholds are integers in percent         *)
(* (0.50 -> 50).  Precision, recall and AP are integers in per-mille       *)
(* (1.0 -> 1000), a mean is Sum \div Len.  Class ids are 0-based as in the *)
(* code; rows of arrays are 1-based sequences, so detection row i of the   *)
(* code is index i+1 here.                                                 *)
(***************************************************************************)
EXTENDS Integers, Sequences, FiniteSets, TLC

VARIABLES
    call,      \* pure-function specifications: the function applied and its arguments
    result,    \* pure-function specifications: what the call returned
    mask,      \* Yolov5Evaluator.mask (constructor argument)
    args,      \* arguments of run_training: does the model return a proto output
               \* (train_out is a tuple), does the dataloader yield masks
    pc,        \* position of the evaluator: Idle, Scanning, Batch, Reported, Raised
    run,       \* number of run_training invocations started on this object
    batch_i,   \* batches taken from the dataloader in the current run
    imgs,      \* history: images yielded so far by the dataloaders of all runs
    todo,      \* images of the current batch not yet passed to compute_stat
    seen,      \* Yolov5Evaluator.seen
    stats,     \* Yolov5Evaluator.stats
    scanned,   \* history: per compute_stat call of the current run, the number of
               \* detections, the label classes and the records it appended
    dt,        \* Yolov5Evaluator.dt
    metric,    \* Yolov5Evaluator.metric
    ret,       \* value returned by run_training, <<>> until it returns
    err,       \* exception that ended the run, "" when none
    updates,   \* history: Metric.update calls made by the current run
    env,       \* what the trainer hands over: the dataset, the batches and images
               \* of its dataloader, the number of evaluations, save_dir.exists()
    plots,     \* Yolov5Evaluator.plots (constructor argument)
    pred_masks, \* number of tensors in the list Yolov5Evaluator.pred_masks
    tasks,     \* the threads plot_images started that have not ended yet
    failed,    \* history: a thread of plot_images ended with an exception
    dt_start   \* history: the value of dt when the current run was entered

vars == <<call, result, mask, args, pc, run, batch_i, imgs, todo, seen, stats, scanned, dt, metric, ret, err, updates, env, plots, pred_masks, tasks, failed, dt_start>>

(***************************************************************************)
(* Bounds and input sets                                                   *)
(***************************************************************************)
MaxDet == 2        \* detections per image given to the matcher
MaxLab == 2        \* labels per image given to the matcher
nc == 2            \* number of classes of the dataset (data["nc"])
IoUVals == {45, 50, 72}   \* entries of the overlap matrices, in percent
ConfVals == {30, 90}      \* detection confidences, in percent
MaxRuns == 2       \* run_training invocations on one evaluator
MaxBatches == 2    \* batches the dataloader yields in one run
MaxImages == 2     \* images the dataloaders of all runs yield in total
MaxImgDet == 1     \* detections of one image of a run
MaxImgLab == 1     \* labels of one image of a run
MaxTick == 1       \* time spent in one stage of inference on one batch
ImgIoUVals == {45, 72}    \* overlaps of the images of a run, in percent
ImgConfVals == {30, 90}   \* confidences of the detections of a run
PlotBatches == 4   \* batches (of one image) of the dataloader when the plots are followed

niou == 10
iouv == [t \in 1..niou |-> 50 + 5 * (t - 1)]

Classes == 0..(nc - 1)

(***************************************************************************)
(* Helpers on sequences                                                    *)
(***************************************************************************)
RECURSIVE Ascending(_)
\* the sorted array of the distinct values of S, as np.unique returns it
Ascending(S) ==
    IF S = {} THEN <<>>
    ELSE LET m == CHOOSE x \in S : \A y \in S : x <= y
         IN  <<m>> \o Ascending(S \ {m})

RECURSIVE Concat(_)
\* np.concatenate(x, 0) of a sequence of arrays
Concat(ss) == IF ss = <<>> THEN <<>> ELSE Head(ss) \o Concat(Tail(ss))

RECURSIVE SumSeq(_)
SumSeq(s) == IF s = <<>> THEN 0 ELSE Head(s) + SumSeq(Tail(s))

Mean(s) == SumSeq(s) \div Len(s)

ZeroRow == [t \in 1..niou |-> FALSE]
\* torch.zeros(n, niou, dtype=torch.bool)
Zeros(n) == [d \in 1..n |-> ZeroRow]

(***************************************************************************)
(* Matcher: process_batch, lines 408-435                                   *)
(*   dets   : sequence of [conf, cls]   (Array[N, 6], boxes abstracted)    *)
(*   labels : sequence of class ids     (Array[M, 5], boxes abstracted)    *)
(*   iou    : iou[l][d], the result of box_iou(labels, detections)         *)
(***************************************************************************)
\* variant of Candidates that forgets the class test
Candidates_anyClass(dets, labels, iou) ==
    {x \in (1..Len(labels)) \X (1..Len(dets)) : iou[x[1]][x[2]] >= iouv[1]}

\* torch.where((iou >= iouv[0]) & (labels[:, 0:1] == detections[:, 5]))
Candidates(dets, labels, iou) ==
    {x \in (1..Len(labels)) \X (1..Len(dets)) :
        /\ iou[x[1]][x[2]] >= iouv[1]
        /\ labels[x[1]] = dets[x[2]].cls}

\* the rows of one detection that an IoU-descending sort can put first: those
\* of maximal IoU (argsort is not a stable sort, ties come out in any order)
BestLabels(c, iou, d) ==
    {l \in {x[1] : x \in {y \in c : y[2] = d}} :
        \A x \in c : x[2] = d => iou[l][d] >= iou[x[1]][d]}

\* tie choices: for every detection column one label that may come first
Picks(dets, labels, iou) ==
    LET c == Candidates(dets, labels, iou)
    IN  {p \in [1..Len(dets) -> 0..Len(labels)] :
            \A d \in 1..Len(dets) :
                IF \E x \in c : x[2] = d THEN p[d] \in BestLabels(c, iou, d)
                ELSE p[d] = 0}

\* matches[matches[:, 2].argsort()[::-1]] followed by
\* matches[np.unique(matches[:, 1], return_index=True)[1]]:
\* the first (highest-IoU) row of every detection, in ascending detection order
FirstPerDetection(c, iou, pick) ==
    LET ds == Ascending({x[2] : x \in c})
    IN  [i \in 1..Len(ds) |-> <<pick[ds[i]], ds[i], iou[pick[ds[i]]][ds[i]]>>]

\* variant of FirstPerLabel that skips the de-duplication of labels
FirstPerLabel_keepAll(m) == m

\* matches[np.unique(matches[:, 0], return_index=True)[1]]:
\* the first row of every label in the array as it stands, in ascending label order
FirstPerLabel(m) ==
    LET ls == Ascending({m[i][1] : i \in 1..Len(m)})
        first(l) == CHOOSE i \in 1..Len(m) :
                        /\ m[i][1] = l
                        /\ \A j \in 1..Len(m) : m[j][1] = l => i <= j
    IN  [k \in 1..Len(ls) |-> m[first(ls[k])]]

\* the rows [label, detection, iou] that survive lines 424-432
Matches(dets, labels, iou, pick) ==
    LET c == Candidates(dets, labels, iou)
    IN  IF c = {} THEN <<>>
        ELSE IF Cardinality(c) > 1
             THEN FirstPerLabel(FirstPerDetection(c, iou, pick))
             ELSE LET x == CHOOSE y \in c : TRUE
                  IN  << <<x[1], x[2], iou[x[1]][x[2]]>> >>

\* variant of Correct that compares with > instead of >=
Correct_strict(n, m) ==
    [d \in 1..n |->
        IF \E i \in 1..Len(m) : m[i][2] = d
        THEN LET i == CHOOSE j \in 1..Len(m) : m[j][2] = d
             IN  [t \in 1..niou |-> m[i][3] > iouv[t]]
        ELSE ZeroRow]

\* correct[matches[:, 1].long()] = matches[:, 2:3] >= iouv
Correct(n, m) ==
    [d \in 1..n |->
        IF \E i \in 1..Len(m) : m[i][2] = d
        THEN LET i == CHOOSE j \in 1..Len(m) :
                         /\ m[j][2] = d
                         /\ \A k \in 1..Len(m) : m[k][2] = d => k <= j
             IN  [t \in 1..niou |-> m[i][3] >= iouv[t]]
        ELSE ZeroRow]

process_batch(dets, labels, iou, pick) ==
    Correct(Len(dets), Matches(dets, labels, iou, pick))

(***************************************************************************)
(* Matcher, mask variant: process_batch_masks, lines 437-483               *)
(*   proto, gtm : presence of proto_out / gt_masksi (FALSE is None)        *)
(*   iou        : iou[l][d], the result of mask_iou(gt masks, pred masks)  *)
(* Returns [raised, correct, pred_maski]; pred_maski is "None" or "masks". *)
(***************************************************************************)
process_batch_masks(dets, proto, gtm, labels, iou, pick) ==
    IF proto # gtm
    THEN [raised |-> TRUE, correct |-> <<>>, matches |-> <<>>, pred_maski |-> "None"]
    ELSE IF ~proto /\ ~gtm
    THEN [raised |-> FALSE, correct |-> Zeros(0), matches |-> <<>>, pred_maski |-> "None"]
    ELSE [raised |-> FALSE,
          correct |-> Correct(Len(dets), Matches(dets, labels, iou, pick)),
          matches |-> Matches(dets, labels, iou, pick),
          pred_maski |-> "masks"]

(***************************************************************************)
(* Specification SpecMatch: the two matchers applied to bounded inputs     *)
(***************************************************************************)
NoCall == [fn |-> "none"]
NoResult == [status |-> "none"]
Pending == [status |-> "pending"]

\* construction, lines 154-161: the state of a new Yolov5Evaluator
Fresh ==
    [p |-> <<>>, r |-> <<>>, f1 |-> <<>>, all_ap |-> <<>>, ap_class_index |-> <<>>]

EvaluatorIdle ==
    /\ args = [proto |-> FALSE, gtm |-> FALSE]
    /\ pc = "Idle"
    /\ run = 0
    /\ batch_i = 0
    /\ imgs = 0
    /\ todo = 0
    /\ seen = 0
    /\ stats = <<>>
    /\ scanned = <<>>
    /\ dt = <<0, 0, 0>>
    /\ metric = [box |-> Fresh, mask |-> Fresh]
    /\ ret = <<>>
    /\ err = ""
    /\ updates = 0
    /\ pred_masks = 0
    /\ tasks = {}
    /\ failed = FALSE
    /\ dt_start = <<0, 0, 0>>

runVars == <<mask, args, pc, run, batch_i, imgs, todo, seen, stats, scanned, dt, metric, ret, err, updates, env, plots, pred_masks, tasks, failed, dt_start>>

Detections(n) == [1..n -> [conf : ConfVals, cls : Classes]]
Labels(n) == [1..n -> Classes]
Overlaps(nl, nd) == [1..nl -> [1..nd -> IoUVals]]

\* the images a dataset may hold: the detections NMS gives for the image, the
\* classes of its labels and its two overlap matrices (boxes, masks)
AnyImages ==
    UNION {[dets : [1..x[1] -> [conf : ImgConfVals, cls : Classes]],
            labels : Labels(x[2]),
            biou : [1..x[2] -> [1..x[1] -> ImgIoUVals]],
            miou : [1..x[2] -> [1..x[1] -> ImgIoUVals]]] :
           x \in (0..MaxImgDet) \X (0..MaxImgLab)}

\* a dataset of two images: one without detection and label, one with a
\* detection that matches its label
SampleImages ==
    {[dets |-> <<>>, labels |-> <<>>, biou |-> <<>>, miou |-> <<>>],
     [dets |-> <<[conf |-> 90, cls |-> 0]>>, labels |-> <<0>>,
      biou |-> << <<72>> >>, miou |-> << <<72>> >>]}

Dataset(kind) == IF kind = "sample" THEN SampleImages ELSE AnyImages

\* is train_out a tuple with a proto output, does the dataloader yield masks
Presence(kind) ==
    IF kind = "sample"
    THEN {[proto |-> TRUE, gtm |-> TRUE]}
    ELSE [proto : BOOLEAN, gtm : BOOLEAN]

\* a trainer that evaluates MaxRuns times on dataloaders over any image
TrainEnv(exists) ==
    [dataset |-> "any", batches |-> MaxBatches, batch_size |-> MaxImages,
     images |-> MaxImages, runs |-> MaxRuns, save_dir |-> exists]

\* one evaluation on a dataloader of PlotBatches batches of one sample image
PlotEnv(exists) ==
    [dataset |-> "sample", batches |-> PlotBatches, batch_size |-> 1,
     images |-> PlotBatches, runs |-> 1, save_dir |-> exists]

MatchInit ==
    /\ \E nd \in 0..MaxDet, nl \in 0..MaxLab :
         \E ds \in Detections(nd), ls \in Labels(nl), m \in Overlaps(nl, nd) :
           \/ call = [fn |-> "process_batch", dets |-> ds, labels |-> ls, iou |-> m,
                      proto |-> FALSE, gtm |-> FALSE]
           \/ \E p \in BOOLEAN, g \in BOOLEAN :
                call = [fn |-> "process_batch_masks", dets |-> ds, labels |-> ls,
                        iou |-> m, proto |-> p, gtm |-> g]
    /\ result = Pending
    /\ mask = FALSE
    /\ plots = TRUE
    /\ env = TrainEnv(TRUE)
    /\ EvaluatorIdle

ProcessBatch ==
    /\ call.fn = "process_batch"
    /\ result = Pending
    /\ \E pick \in Picks(call.dets, call.labels, call.iou) :
         result' = [status |-> "returned",
                    correct |-> process_batch(call.dets, call.labels, call.iou, pick),
                    matches |-> Matches(call.dets, call.labels, call.iou, pick),
                    pred_maski |-> "None"]
    /\ UNCHANGED <<call, runVars>>

ProcessBatchMasks ==
    /\ call.fn = "process_batch_masks"
    /\ result = Pending
    /\ \E pick \in Picks(call.dets, call.labels, call.iou) :
         LET o == process_batch_masks(call.dets, call.proto, call.gtm,
                                      call.labels, call.iou, pick)
         IN  result' = [status |-> IF o.raised THEN "raised" ELSE "returned",
                        correct |-> o.correct,
                        matches |-> o.matches,
                        pred_maski |-> o.pred_maski]
    /\ UNCHANGED <<call, runVars>>

MatchNext == ProcessBatch \/ ProcessBatchMasks

SpecMatch == MatchInit /\ [][MatchNext]_vars

\* the matcher ran its de-duplication on the call's overlap matrix
Matched ==
    /\ result.status = "returned"
    /\ \/ call.fn = "process_batch"
       \/ call.fn = "process_batch_masks" /\ call.proto /\ call.gtm

(***************************************************************************)
(* Properties of the matchers, checked under SpecMatch                     *)
(***************************************************************************)
CallCandidates == Candidates(call.dets, call.labels, call.iou)

\* C1: the surviving matches contain each detection index at most once and
\* each label index at most once, for process_batch and process_batch_masks;
\* so the detections of a class marked true at threshold index 0 are never
\* more than the labels of that class.
C1_OneToOne ==
    Matched =>
        LET m == result.matches
        IN  /\ \A i, j \in 1..Len(m) :
                 i # j => m[i][1] # m[j][1] /\ m[i][2] # m[j][2]
            /\ \A c \in Classes :
                 Cardinality({d \in 1..Len(call.dets) :
                                 call.dets[d].cls = c /\ result.correct[d][1]})
                   <= Cardinality({l \in 1..Len(call.labels) : call.labels[l] = c})

\* two labels and two detections of one class, every pair a candidate: the
\* de-duplication removed two of the four rows
C1_Witness ==
    /\ Matched
    /\ call.fn = "process_batch_masks"
    /\ Cardinality(CallCandidates) = 4
    /\ Len(result.matches) = 2

\* C2: when several detections of the right class overlap one single label
\* with IoU >= 0.5, only the detection with the highest IoU is marked correct
\* and every other row stays all-false.
C2_HighestIoUWins ==
    ( /\ call.fn = "process_batch"
      /\ result.status = "returned"
      /\ Len(call.labels) = 1
      /\ Cardinality(CallCandidates) >= 2 )
    => /\ Cardinality({d \in 1..Len(call.dets) : result.correct[d] # ZeroRow}) = 1
       /\ \A d \in 1..Len(call.dets) :
            result.correct[d] # ZeroRow =>
                \A x \in CallCandidates : call.iou[1][d] >= call.iou[1][x[2]]

\* C3: a row of the matrix returned by process_batch has a true entry only if
\* some label has the detection's class and IoU >= iouv[0] with it; the matrix
\* has one row per detection and is all-false when there is no label.
C3_OnlyCandidatesTrue ==
    (call.fn = "process_batch" /\ result.status = "returned") =>
        /\ Len(result.correct) = Len(call.dets)
        /\ \A d \in 1..Len(call.dets) :
             (\E t \in 1..niou : result.correct[d][t]) =>
                 \E l \in 1..Len(call.labels) :
                     /\ call.labels[l] = call.dets[d].cls
                     /\ call.iou[l][d] >= iouv[1]
        /\ (Len(call.labels) = 0 => result.correct = Zeros(Len(call.dets)))

\* a detection of the wrong class overlapping a label keeps an all-false row
\* while another detection of the label's class is marked
C3_Witness ==
    /\ call.fn = "process_batch"
    /\ result.status = "returned"
    /\ \E d \in 1..Len(call.dets), l \in 1..Len(call.labels) :
         /\ call.iou[l][d] >= iouv[1]
         /\ \A k \in 1..Len(call.labels) : call.labels[k] # call.dets[d].cls
         /\ result.correct[d] = ZeroRow
    /\ \E d \in 1..Len(call.dets) : result.correct[d][1]

\* C4: every row of the matrix is non-increasing along the ascending
\* thresholds, and the row of a surviving match (label, detection, iou) is
\* true exactly at the thresholds <= iou.
C4_RowsMonotone ==
    (call.fn = "process_batch" /\ result.status = "returned") =>
        /\ \A d \in 1..Len(call.dets) : \A t, u \in 1..niou :
             (result.correct[d][t] /\ u < t) => result.correct[d][u]
        /\ \A i \in 1..Len(result.matches) : \A t \in 1..niou :
             result.correct[result.matches[i][2]][t] <=> (iouv[t] <= result.matches[i][3])

\* a match at IoU 0.72 (true up to 0.70, false from 0.75) and one exactly at 0.50
C4_Witness ==
    /\ call.fn = "process_batch"
    /\ result.status = "returned"
    /\ \E d \in 1..Len(call.dets) : result.correct[d][5] /\ ~result.correct[d][6]
    /\ \E i \in 1..Len(result.matches) : result.matches[i][3] = iouv[1]

(***************************************************************************)
(* class Metric, lines 645-725.  A Metric is a record                      *)
(*   [p, r, f1, all_ap, ap_class_index]                                    *)
(* of per-class sequences; all_ap[i] is the row of niou AP values of the   *)
(* i-th class of ap_class_index.                                           *)
(***************************************************************************)
ap50(m) == IF Len(m.all_ap) > 0 THEN [i \in 1..Len(m.all_ap) |-> m.all_ap[i][1]] ELSE <<>>

ap(m) == IF Len(m.all_ap) > 0 THEN [i \in 1..Len(m.all_ap) |-> Mean(m.all_ap[i])] ELSE <<>>

\* variant of mp that reports a precision of 1.0 when there is no class
mp_defaultOne(m) == IF Len(m.p) > 0 THEN Mean(m.p) ELSE 1000

mp(m) == IF Len(m.p) > 0 THEN Mean(m.p) ELSE 0

mr(m) == IF Len(m.r) > 0 THEN Mean(m.r) ELSE 0

map50(m) == IF Len(m.all_ap) > 0 THEN Mean(ap50(m)) ELSE 0

map(m) == IF Len(m.all_ap) > 0 THEN Mean(Concat(m.all_ap)) ELSE 0

Metric_mean_results(m) == <<mp(m), mr(m), map50(m), map(m)>>

Metric_class_result(m, i) == <<m.p[i], m.r[i], ap50(m)[i], ap(m)[i]>>

\* maps = np.zeros(nc) + self.map; maps[c] = self.ap[i] for i, c in enumerate(ap_class_index)
Metric_get_maps(m, n) ==
    [k \in 1..n |->
        IF \E i \in 1..Len(m.ap_class_index) : m.ap_class_index[i] = k - 1
        THEN LET i == CHOOSE j \in 1..Len(m.ap_class_index) :
                         /\ m.ap_class_index[j] = k - 1
                         /\ \A h \in 1..Len(m.ap_class_index) :
                                m.ap_class_index[h] = k - 1 => h <= j
             IN  ap(m)[i]
        ELSE map(m)]

\* results: [p, r, all_ap, f1, ap_class_index]
Metric_update(m, results) ==
    [p |-> results.p, r |-> results.r, f1 |-> results.f1,
     all_ap |-> results.all_ap, ap_class_index |-> results.ap_class_index]

(***************************************************************************)
(* class Metrics, lines 728-755.  A Metrics is [box, mask], two Metric.    *)
(***************************************************************************)
Metrics_update(ms, results) ==
    [box |-> Metric_update(ms.box, results.boxes),
     mask |-> Metric_update(ms.mask, results.masks)]

\* tuple + tuple
Metrics_mean_results(ms) == Metric_mean_results(ms.box) \o Metric_mean_results(ms.mask)

\* tuple + tuple
Metrics_class_result(ms, i) == Metric_class_result(ms.box, i) \o Metric_class_result(ms.mask, i)

\* numpy array + numpy array: the element-wise sum
Metrics_get_maps(ms, n) ==
    [k \in 1..n |-> Metric_get_maps(ms.box, n)[k] + Metric_get_maps(ms.mask, n)[k]]

Metrics_ap_class_index(ms) == ms.box.ap_class_index

(***************************************************************************)
(* self.metric: a Metrics when self.mask, else a Metric (line 161).  The   *)
(* variable metric always holds the pair; in box mode only metric.box is   *)
(* the object.                                                             *)
(***************************************************************************)
metric_update(ms, results) ==
    IF mask THEN Metrics_update(ms, results)
    ELSE [box |-> Metric_update(ms.box, results), mask |-> ms.mask]

metric_mean_results(ms) ==
    IF mask THEN Metrics_mean_results(ms) ELSE Metric_mean_results(ms.box)

metric_class_result(ms, i) ==
    IF mask THEN Metrics_class_result(ms, i) ELSE Metric_class_result(ms.box, i)

metric_get_maps(ms, n) ==
    IF mask THEN Metrics_get_maps(ms, n) ELSE Metric_get_maps(ms.box, n)

(***************************************************************************)
(* Specification SpecMetric: the metric object updated with bounded        *)
(* results and read through its accessors                                  *)
(***************************************************************************)
FullRow(v, n) == [t \in 1..niou |-> IF t <= n THEN v ELSE 0]

\* the per-class results an update may carry
ClassResults ==
    { [p |-> 0,    r |-> 0,    f1 |-> 0,    ap |-> FullRow(0, niou)],
      [p |-> 1000, r |-> 500,  f1 |-> 666,  ap |-> FullRow(1000, 5)],
      [p |-> 1000, r |-> 1000, f1 |-> 1000, ap |-> FullRow(1000, niou)] }

\* results for the classes of index, one ClassResults element each
ResultsFor(index, cr) ==
    [p |-> [i \in 1..Len(index) |-> cr[i].p],
     r |-> [i \in 1..Len(index) |-> cr[i].r],
     all_ap |-> [i \in 1..Len(index) |-> cr[i].ap],
     f1 |-> [i \in 1..Len(index) |-> cr[i].f1],
     ap_class_index |-> index]

MetricInit ==
    /\ mask \in BOOLEAN
    /\ plots = TRUE
    /\ env = TrainEnv(TRUE)
    /\ call = NoCall
    /\ result = NoResult
    /\ EvaluatorIdle

notMetric == <<mask, args, pc, run, batch_i, imgs, todo, seen, stats, scanned, dt, ret, err, updates, env, plots, pred_masks, tasks, failed, dt_start>>

Update ==
    /\ \E S \in SUBSET Classes :
         LET index == Ascending(S)
         IN  \E b \in [1..Len(index) -> ClassResults], k \in [1..Len(index) -> ClassResults] :
               metric' = metric_update(metric,
                            IF mask THEN [boxes |-> ResultsFor(index, b),
                                          masks |-> ResultsFor(index, k)]
                            ELSE ResultsFor(index, b))
    /\ call' = [fn |-> "update"]
    /\ result' = [status |-> "returned", value |-> <<>>]
    /\ UNCHANGED notMetric

MeanResults ==
    /\ call' = [fn |-> "mean_results"]
    /\ result' = [status |-> "returned", value |-> metric_mean_results(metric)]
    /\ UNCHANGED <<metric, notMetric>>

ClassResult ==
    /\ \E i \in 1..Len(metric.box.ap_class_index) :
         /\ call' = [fn |-> "class_result", i |-> i]
         /\ result' = [status |-> "returned", value |-> metric_class_result(metric, i)]
    /\ UNCHANGED <<metric, notMetric>>

GetMaps ==
    /\ call' = [fn |-> "get_maps"]
    /\ result' = [status |-> "returned", value |-> metric_get_maps(metric, nc)]
    /\ UNCHANGED <<metric, notMetric>>

MetricNext == Update \/ MeanResults \/ ClassResult \/ GetMaps

SpecMetric == MetricInit /\ [][MetricNext]_vars

\* C8: the array returned by get_maps(nc), in box-only and in mask mode, has
\* length nc, and every entry is the global mean AP except the positions of
\* the classes of ap_class_index, which hold that class's own AP.
C8_MapsDense ==
    (call.fn = "get_maps" /\ result.status = "returned") =>
        /\ Len(result.value) = nc
        /\ \E m \in (IF mask THEN {metric.box, metric.mask} ELSE {metric.box}) :
             \A c \in Classes :
                result.value[c + 1] =
                    IF \E i \in 1..Len(m.ap_class_index) : m.ap_class_index[i] = c
                    THEN ap(m)[CHOOSE i \in 1..Len(m.ap_class_index) : m.ap_class_index[i] = c]
                    ELSE map(m)

\* C9: mean_results, class_result and get_maps of the mask-extended metric
\* return the box metric's result followed by the mask metric's result.
C9_BoxThenMask ==
    (mask /\ result.status = "returned") =>
        /\ call.fn = "mean_results" =>
             result.value = Metric_mean_results(metric.box) \o Metric_mean_results(metric.mask)
        /\ call.fn = "class_result" =>
             result.value = Metric_class_result(metric.box, call.i)
                               \o Metric_class_result(metric.mask, call.i)
        /\ call.fn = "get_maps" =>
             result.value = Metric_get_maps(metric.box, nc) \o Metric_get_maps(metric.mask, nc)

(***************************************************************************)
(* Aggregation functions of utils/metrics.py (not part of evaluator.py),   *)
(* after section 4.4 of the specification: per class with ground truth,    *)
(* predictions sorted by confidence descending, cumulative TP / FP,        *)
(* AP as the area under the precision envelope, P and R at the point of    *)
(* maximal F1 at threshold index 0.                                        *)
(***************************************************************************)
\* rows of one class, by confidence descending (ties keep their order)
ByConfidence(conf, pred_cls, c) ==
    LET idx == {i \in 1..Len(conf) : pred_cls[i] = c}
        rank(i) == Cardinality({j \in idx : conf[j] > conf[i]})
                     + Cardinality({j \in idx : j < i /\ conf[j] = conf[i]}) + 1
    IN  [k \in 1..Cardinality(idx) |-> CHOOSE i \in idx : rank(i) = k]

MaxOf(S) == CHOOSE x \in S : \A y \in S : x >= y

\* true positives at threshold t among the first k rows of o
CumTP(tp, o, t, k) == Cardinality({j \in 1..k : tp[o[j]][t]})

PrecisionAt(tp, o, t, k) == (CumTP(tp, o, t, k) * 1000) \div k

RecallAt(tp, o, n_l, t, k) == (CumTP(tp, o, t, k) * 1000) \div n_l

HarmonicMean(a, b) == IF a + b = 0 THEN 0 ELSE (2 * a * b) \div (a + b)

\* F1 at threshold index 0 after the first k rows
F1At(tp, o, n_l, k) == HarmonicMean(PrecisionAt(tp, o, 1, k), RecallAt(tp, o, n_l, 1, k))

\* the first point of maximal F1
BestPoint(tp, o, n_l) ==
    LET f == [k \in 1..Len(o) |-> F1At(tp, o, n_l, k)]
    IN  CHOOSE k \in 1..Len(o) :
            /\ \A j \in 1..Len(o) : f[k] >= f[j]
            /\ \A j \in 1..(k - 1) : f[j] < f[k]

\* area under the precision envelope at threshold t
AreaUnder(tp, o, n_l, t) ==
    LET prec == [k \in 1..Len(o) |-> PrecisionAt(tp, o, t, k)]
        envelope == [k \in 1..Len(o) |-> MaxOf({prec[j] : j \in k..Len(o)})]
    IN  SumSeq([k \in 1..Len(o) |-> IF tp[o[k]][t] THEN envelope[k] ELSE 0]) \div n_l

StatsAt(tp, o, n_l, best) ==
    [p |-> PrecisionAt(tp, o, 1, best), r |-> RecallAt(tp, o, n_l, 1, best),
     f1 |-> F1At(tp, o, n_l, best),
     ap |-> [t \in 1..niou |-> AreaUnder(tp, o, n_l, t)]]

ClassStats(tp, conf, pred_cls, target_cls, c) ==
    LET o == ByConfidence(conf, pred_cls, c)
        n_l == Cardinality({i \in 1..Len(target_cls) : target_cls[i] = c})
    IN  IF Len(o) = 0
        THEN [p |-> 0, r |-> 0, f1 |-> 0, ap |-> FullRow(0, niou)]
        ELSE StatsAt(tp, o, n_l, BestPoint(tp, o, n_l))

\* returns [raised, results]; raises when tp and conf differ in length
ap_per_class(tp, conf, pred_cls, target_cls) ==
    IF Len(tp) # Len(conf)
    THEN [raised |-> TRUE, results |-> <<>>]
    ELSE LET index == Ascending({target_cls[i] : i \in 1..Len(target_cls)})
         IN  [raised |-> FALSE,
              results |-> ResultsFor(index,
                            [i \in 1..Len(index) |->
                                ClassStats(tp, conf, pred_cls, target_cls, index[i])])]

ap_per_class_box_and_mask(tp_m, tp_b, conf, pred_cls, target_cls) ==
    LET b == ap_per_class(tp_b, conf, pred_cls, target_cls)
        k == ap_per_class(tp_m, conf, pred_cls, target_cls)
    IN  [raised |-> b.raised \/ k.raised,
         results |-> [boxes |-> b.results, masks |-> k.results]]

(***************************************************************************)
(* Per-image stat recorder: compute_stat, lines 485-539 (single_cls False) *)
(* A record of self.stats is the 5-tuple the code appends:                 *)
(*   <<correct_masks, correct_boxes, conf, pcls, tcls>>                    *)
(* Returns [raised, append, pred_maski]: append is the sequence of records *)
(* appended (none or one), pred_maski what process_batch_masks returned    *)
(* as predicted masks ("None" when it was not called).                     *)
(***************************************************************************)
\* variant of compute_stat that records nothing for an image without detections
compute_stat_skipEmpty(dets, labels, biou, miou, proto, gtm, pb, pm) ==
    IF Len(dets) = 0
    THEN [raised |-> FALSE, append |-> <<>>, pred_maski |-> "None"]
    ELSE LET conf == [d \in 1..Len(dets) |-> dets[d].conf]
             pcls == [d \in 1..Len(dets) |-> dets[d].cls]
         IN  [raised |-> FALSE,
              append |-> << <<Zeros(Len(dets)), Zeros(Len(dets)), conf, pcls, labels>> >>,
              pred_maski |-> "None"]

compute_stat(dets, labels, biou, miou, proto, gtm, pb, pm) ==
    LET nl == Len(labels)
        tcls == IF nl > 0 THEN labels ELSE <<>>
        conf == [d \in 1..Len(dets) |-> dets[d].conf]
        pcls == [d \in 1..Len(dets) |-> dets[d].cls]
    IN  IF Len(dets) = 0
        THEN IF nl > 0
             THEN [raised |-> FALSE,
                   append |-> << <<Zeros(0), Zeros(0), <<>>, <<>>, tcls>> >>,
                   pred_maski |-> "None"]
             ELSE [raised |-> FALSE, append |-> <<>>, pred_maski |-> "None"]
        ELSE IF nl > 0
        THEN LET correct_boxes == process_batch(dets, labels, biou, pb)
                 o == process_batch_masks(dets, proto, gtm, labels, miou, pm)
             IN  IF o.raised
                 THEN [raised |-> TRUE, append |-> <<>>, pred_maski |-> "None"]
                 ELSE [raised |-> FALSE,
                       append |-> << <<o.correct, correct_boxes, conf, pcls, tcls>> >>,
                       pred_maski |-> o.pred_maski]
        ELSE [raised |-> FALSE,
              append |-> << <<Zeros(Len(dets)), Zeros(Len(dets)), conf, pcls, tcls>> >>,
              pred_maski |-> "None"]

(***************************************************************************)
(* after_infer, lines 377-406, and the return of run_training, 208-216     *)
(* Returns [err, stats, metric, t, updated]; updated tells whether         *)
(* self.metric.update(results), line 394, was executed.                    *)
(***************************************************************************)
AnyTrue(rows) == \E i \in 1..Len(rows) : \E t \in 1..niou : rows[i][t]

\* variant of after_infer that leaves self.stats as it is (no line 402)
after_infer_keepStats(st, ms, n, d) ==
    IF st = <<>>
    THEN [err |-> "IndexError", stats |-> st, metric |-> ms, t |-> <<>>,
          updated |-> FALSE]
    ELSE LET cols == [k \in 1..5 |-> Concat([i \in 1..Len(st) |-> st[i][k]])]
             box_or_mask_any == AnyTrue(cols[1]) \/ AnyTrue(cols[2])
             o == IF mask
                  THEN ap_per_class_box_and_mask(cols[1], cols[2], cols[3], cols[4], cols[5])
                  ELSE ap_per_class(cols[2], cols[3], cols[4], cols[5])
             ms2 == IF box_or_mask_any THEN metric_update(ms, o.results) ELSE ms
         IN  IF box_or_mask_any /\ o.raised
             THEN [err |-> "IndexError", stats |-> st, metric |-> ms, t |-> <<>>,
                   updated |-> FALSE]
             ELSE IF n = 0
             THEN [err |-> "ZeroDivisionError", stats |-> st, metric |-> ms2, t |-> <<>>,
                   updated |-> box_or_mask_any]
             ELSE [err |-> "", stats |-> st, metric |-> ms2,
                   t |-> [i \in 1..3 |-> (d[i] * 1000) \div n],
                   updated |-> box_or_mask_any]

after_infer(st, ms, n, d) ==
    IF st = <<>>
    THEN \* zip(*[]) is empty, stats == [] and stats[0] raises
         [err |-> "IndexError", stats |-> st, metric |-> ms, t |-> <<>>,
          updated |-> FALSE]
    ELSE LET cols == [k \in 1..5 |-> Concat([i \in 1..Len(st) |-> st[i][k]])]
             box_or_mask_any == AnyTrue(cols[1]) \/ AnyTrue(cols[2])
             o == IF mask
                  THEN ap_per_class_box_and_mask(cols[1], cols[2], cols[3], cols[4], cols[5])
                  ELSE ap_per_class(cols[2], cols[3], cols[4], cols[5])
             ms2 == IF box_or_mask_any THEN metric_update(ms, o.results) ELSE ms
         IN  IF box_or_mask_any /\ o.raised
             THEN [err |-> "IndexError", stats |-> st, metric |-> ms, t |-> <<>>,
                   updated |-> FALSE]
             ELSE IF n = 0
             THEN [err |-> "ZeroDivisionError", stats |-> <<>>, metric |-> ms2, t |-> <<>>,
                   updated |-> box_or_mask_any]
             ELSE [err |-> "", stats |-> <<>>, metric |-> ms2,
                   t |-> [i \in 1..3 |-> (d[i] * 1000) \div n],
                   updated |-> box_or_mask_any]

(***************************************************************************)
(* plot_images, lines 610-636: the threads it starts for batch i.  A       *)
(* thread is [run, batch, f, args]: the file it writes and the objects it  *)
(* is given (the tensors of its batch, by name, and self.names).           *)
(***************************************************************************)
\* variant of plot_images without the test i >= 3
plot_images_everyBatch(i, exists) ==
    IF ~plots \/ ~exists
    THEN {}
    ELSE {[run |-> run, batch |-> i, f |-> "labels",
           args |-> {"img", "targets", "masks", "paths", "self.names"}],
          [run |-> run, batch |-> i, f |-> "pred",
           args |-> {"img", "output_to_target(out)", "paths", "self.names",
                     IF pred_masks = 0 THEN "None"
                     ELSE IF pred_masks > 1 THEN "torch.cat(self.pred_masks)"
                     ELSE "self.pred_masks[0]"}]}

plot_images(i, exists) ==
    IF ~plots \/ i >= 3 \/ ~exists
    THEN {}
    ELSE {[run |-> run, batch |-> i, f |-> "labels",
           args |-> {"img", "targets", "masks", "paths", "self.names"}],
          [run |-> run, batch |-> i, f |-> "pred",
           args |-> {"img", "output_to_target(out)", "paths", "self.names",
                     IF pred_masks = 0 THEN "None"
                     ELSE IF pred_masks > 1 THEN "torch.cat(self.pred_masks)"
                     ELSE "self.pred_masks[0]"}]}

(***************************************************************************)
(* Specification Spec: run_training, lines 163-216, on one evaluator: the  *)
(* steps of the thread that calls run_training.  The threads plot_images   *)
(* starts take their steps in SpecPlot below.                              *)
(***************************************************************************)
Init ==
    /\ mask \in BOOLEAN
    /\ plots \in BOOLEAN
    /\ env = TrainEnv(TRUE)
    /\ call = NoCall
    /\ result = NoResult
    /\ EvaluatorIdle

\* lines 163-172: entry of run_training
RunTraining ==
    /\ pc \in {"Idle", "Reported"}
    /\ run < env.runs
    /\ args' \in Presence(env.dataset)
    /\ run' = run + 1
    /\ seen' = 0
    /\ batch_i' = 0
    /\ todo' = 0
    /\ scanned' = <<>>
    /\ err' = ""
    /\ ret' = <<>>
    /\ pc' = "Scanning"
    /\ updates' = 0
    /\ dt_start' = dt
    /\ UNCHANGED <<call, result, mask, imgs, stats, dt, metric, env, plots, pred_masks, tasks, failed>>

\* lines 176-185 and inference, lines 347-375: the dataloader yields a batch
\* of n images, self.pred_masks is reset and the three timers advance
Inference ==
    /\ pc = "Scanning"
    /\ batch_i < env.batches
    /\ imgs < env.images
    /\ \E n \in 1..env.batch_size, a \in 1..MaxTick, b \in 1..MaxTick, c \in 1..MaxTick :
         /\ n <= env.images - imgs
         /\ todo' = n
         /\ imgs' = imgs + n
         /\ dt' = <<dt[1] + a, dt[2] + b, dt[3] + c>>
    /\ pred_masks' = 0
    /\ pc' = "Batch"
    /\ UNCHANGED <<call, result, mask, args, run, batch_i, seen, stats, scanned, metric, ret, err, updates, env, plots, tasks, failed, dt_start>>

\* lines 188-197: one iteration of the loop over the images of the batch
ComputeStat ==
    /\ pc = "Batch"
    /\ todo > 0
    /\ \E im \in Dataset(env.dataset) :
         \E pb \in Picks(im.dets, im.labels, im.biou),
            pm \in Picks(im.dets, im.labels, im.miou) :
           LET o == compute_stat(im.dets, im.labels, im.biou, im.miou,
                                 args.proto, args.gtm, pb, pm)
           IN  /\ seen' = seen + 1
               /\ scanned' = Append(scanned,
                                [nd |-> Len(im.dets), labels |-> im.labels, rec |-> o.append])
               /\ stats' = stats \o o.append
               /\ pred_masks' = IF plots /\ o.pred_maski # "None"
                                THEN pred_masks + 1 ELSE pred_masks
               /\ IF o.raised
                  THEN pc' = "Raised" /\ err' = "AssertionError" /\ todo' = todo
                  ELSE pc' = pc /\ err' = err /\ todo' = todo - 1
    /\ UNCHANGED <<call, result, mask, args, run, batch_i, imgs, dt, metric, ret, updates, env, plots, tasks, failed, dt_start>>

\* line 202 and plot_images, lines 610-636: end of the batch
PlotImages ==
    /\ pc = "Batch"
    /\ todo = 0
    /\ tasks' = tasks \cup plot_images(batch_i, env.save_dir)
    /\ batch_i' = batch_i + 1
    /\ pc' = "Scanning"
    /\ UNCHANGED <<call, result, mask, args, run, imgs, todo, seen, stats, scanned, dt, metric, ret, err, updates, env, plots, pred_masks, failed, dt_start>>

\* lines 204-216: the dataloader is exhausted; after_infer and the return
AfterInfer ==
    /\ pc = "Scanning"
    /\ LET o == after_infer(stats, metric, seen, dt)
       IN  /\ stats' = o.stats
           /\ metric' = o.metric
           /\ err' = o.err
           /\ updates' = IF o.updated THEN updates + 1 ELSE updates
           /\ IF o.err # ""
              THEN pc' = "Raised" /\ ret' = ret
              ELSE /\ pc' = "Reported"
                   /\ ret' = [mean |-> metric_mean_results(o.metric),
                              maps |-> metric_get_maps(o.metric, nc),
                              t |-> o.t]
    /\ UNCHANGED <<call, result, mask, args, run, batch_i, imgs, todo, seen, scanned, dt, env, plots, pred_masks, tasks, failed, dt_start>>

Next == RunTraining \/ Inference \/ ComputeStat \/ PlotImages \/ AfterInfer

Spec == Init /\ [][Next]_vars

(***************************************************************************)
(* Specification SpecPlot: one run_training call together with the daemon  *)
(* threads plot_images starts (lines 616-636).  A thread runs              *)
(* plot_images_boxes_and_masks on the objects it was given; it returns or  *)
(* raises, at any moment or never, and the exception of a thread ends that *)
(* thread only.  Nothing joins the threads.                                *)
(***************************************************************************)
PlotInit ==
    /\ mask \in BOOLEAN
    /\ plots \in BOOLEAN
    /\ env \in {PlotEnv(e) : e \in BOOLEAN}
    /\ call = NoCall
    /\ result = NoResult
    /\ EvaluatorIdle

\* everything the thread that calls run_training reads or writes
scanVars == <<mask, args, pc, run, batch_i, imgs, todo, seen, stats, scanned, dt, metric, ret, err, updates, env, plots, pred_masks, dt_start>>

\* a thread returns from plot_images_boxes_and_masks
TaskReturns ==
    /\ \E t \in tasks : tasks' = tasks \ {t}
    /\ UNCHANGED <<call, result, scanVars, failed>>

\* a thread ends with an exception
TaskRaises ==
    /\ \E t \in tasks : tasks' = tasks \ {t}
    /\ failed' = TRUE
    /\ UNCHANGED <<call, result, scanVars>>

PlotNext == Next \/ TaskReturns \/ TaskRaises

\* the interpreter keeps scheduling the thread that runs the loop of
\* run_training (lines 176-202), whatever the daemon threads do; the daemon
\* threads have no such guarantee
SpecPlot ==
    /\ PlotInit
    /\ [][PlotNext]_vars
    /\ WF_vars(Inference \/ ComputeStat \/ PlotImages)

(***************************************************************************)
(* Properties of a run, checked under Spec                                 *)
(***************************************************************************)
\* no image scanned so far in this run produced a record
NoRecordRun ==
    \A i \in 1..Len(scanned) : scanned[i].nd = 0 /\ scanned[i].labels = <<>>

\* no record of this run has a true entry in a correctness matrix
NoTruePositive ==
    \A i \in 1..Len(scanned) : \A k \in 1..Len(scanned[i].rec) :
        ~AnyTrue(scanned[i].rec[k][1]) /\ ~AnyTrue(scanned[i].rec[k][2])

AllZero(s) == \A i \in 1..Len(s) : s[i] = 0

\* C5: a run over zero images, or in which no image produced a record, does
\* not raise: it reports zero mean metrics and the division of the timings by
\* the seen-image count is guarded.
C5_EmptyRunCompletes ==
    (run = 1 /\ NoRecordRun) =>
        /\ pc # "Raised"
        /\ pc = "Reported" => AllZero(ret.mean)

\* C6: when exactly one of the prototype output and the ground-truth masks is
\* present, compute_stat raises for every image and appends no record.
C6_MismatchRaises ==
    (args.proto # args.gtm /\ Len(scanned) > 0) =>
        /\ pc = "Raised"
        /\ err = "AssertionError"
        /\ stats = <<>>

\* the scanned images that had a detection or a label, in scan order
Recorded == SelectSeq(scanned, LAMBDA e : e.nd > 0 \/ e.labels # <<>>)

\* C7: while no image has raised, the buffer holds exactly one record for each
\* scanned image with a detection or a label and none for an image with
\* neither; an image with labels and no detection gives zero-row matrices,
\* empty confidences and predicted classes and its full target-class list; the
\* target-class lists of the records hold every label of the scanned images once.
C7_OneRecordPerImage ==
    pc \in {"Scanning", "Batch"} =>
        /\ Len(stats) = Len(Recorded)
        /\ \A k \in 1..Len(stats) :
             /\ stats[k][5] = Recorded[k].labels
             /\ Len(stats[k][3]) = Recorded[k].nd
             /\ Len(stats[k][4]) = Recorded[k].nd
             /\ Recorded[k].nd = 0 =>
                  stats[k] = <<Zeros(0), Zeros(0), <<>>, <<>>, Recorded[k].labels>>
        /\ Concat([k \in 1..Len(stats) |-> stats[k][5]])
             = Concat([i \in 1..Len(scanned) |-> scanned[i].labels])

\* two images scanned: one with a label and no detection, one with neither
C7_Witness ==
    /\ pc = "Scanning"
    /\ Len(scanned) = 2
    /\ scanned[1].nd = 0 /\ scanned[1].labels # <<>>
    /\ scanned[2].nd = 0 /\ scanned[2].labels = <<>>
    /\ Len(stats) = 1

\* C10: the first run of an evaluator in which no detection is a true positive
\* reports mean metrics that are all 0.0 and a get_maps array of 0.0.
C10_NoTruePositiveZero ==
    (pc = "Reported" /\ run = 1 /\ NoTruePositive) =>
        /\ AllZero(ret.mean)
        /\ AllZero(ret.maps)
        /\ Len(ret.maps) = nc

\* a first run reported over two images, one of them with a detection and a
\* label of its class that overlap too little
C10_Witness ==
    /\ pc = "Reported"
    /\ run = 1
    /\ NoTruePositive
    /\ Len(scanned) = 2
    /\ \E i \in 1..2 :
         /\ scanned[i].nd > 0
         /\ Len(scanned[i].rec) = 1
         /\ scanned[i].labels = scanned[i].rec[1][4]

\* C11: Metric.update is not called while the images of a run are scanned, and
\* a run that reached its report has called it exactly once, also when no
\* record of the run holds a true positive.
C11_UpdatedExactlyOnce ==
    /\ pc \in {"Scanning", "Batch"} => updates = 0
    /\ pc = "Reported" => updates = 1

IsPrefix(s, t) == Len(s) <= Len(t) /\ SubSeq(t, 1, Len(s)) = s

\* the records the compute_stat calls of the current run appended, in order
RecordsOf(sc) == Concat([i \in 1..Len(sc) |-> sc[i].rec])

\* C12: during the scan every step leaves the records already in the buffer in
\* place and in order (it only appends), the buffer of a scan holds the records
\* of this run and no other, and after after_infer has returned the buffer is
\* empty, so the next run starts from an empty buffer.
C12_AppendOnlyThenCleared ==
    /\ [][(pc = "Batch" \/ (pc = "Scanning" /\ pc' = "Batch"))
             => IsPrefix(stats, stats')]_vars
    /\ [](pc \in {"Scanning", "Batch"} => stats = RecordsOf(scanned))
    /\ [](pc = "Reported" => stats = <<>>)

\* a second run has reported after a scan that appended a record
C12_Witness ==
    /\ pc = "Reported"
    /\ run = 2
    /\ RecordsOf(scanned) # <<>>
    /\ stats = <<>>

\* C13: every record appended in the current run has as many confidences,
\* predicted classes and rows of the box correctness matrix as the image has
\* detections, and with mask evaluation enabled (self.mask) as many rows of
\* the mask correctness matrix.
C13_RecordRowsAgree ==
    \A i \in 1..Len(scanned) : \A k \in 1..Len(scanned[i].rec) :
        /\ Len(scanned[i].rec[k][3]) = scanned[i].nd
        /\ Len(scanned[i].rec[k][4]) = scanned[i].nd
        /\ Len(scanned[i].rec[k][2]) = scanned[i].nd
        /\ mask => Len(scanned[i].rec[k][1]) = scanned[i].nd

\* what a new evaluator returns for the records, image count and timers given
ReturnOf(records, n, d) ==
    LET o == after_infer(records, [box |-> Fresh, mask |-> Fresh], n, d)
    IN  [mean |-> metric_mean_results(o.metric),
         maps |-> metric_get_maps(o.metric, nc),
         t |-> o.t]

\* the loop over the dataloader is over: the run stands at the call of
\* after_infer, line 205, with no batch left, or is past it
ScanOver ==
    \/ pc \in {"Reported", "Raised"}
    \/ pc = "Scanning" /\ ~(batch_i < env.batches /\ imgs < env.images)

\* C14: a thread exists only for a batch of index below 3, is handed objects
\* of a batch whose scan is over and never self.stats; a step in which a thread
\* ends changes nothing the scan reads or writes; the buffer holds the records
\* of the scanned images and the first run returns what its records, image
\* count and timers determine, whatever the threads did; and with threads that
\* are slow, fail or never end the scan still goes through its batches and
\* arrives at after_infer.
C14_TasksNeverBlock ==
    /\ [](\A t \in tasks :
            /\ t.batch < 3
            /\ "self.stats" \notin t.args
            /\ pc = "Batch" => ~(t.run = run /\ t.batch = batch_i))
    /\ [][~(tasks \subseteq tasks') => UNCHANGED scanVars]_vars
    /\ [](pc \in {"Scanning", "Batch"} => stats = RecordsOf(scanned))
    /\ []((pc = "Reported" /\ run = 1)
            => ret = ReturnOf(RecordsOf(scanned), Len(scanned), dt))
    /\ (pc \in {"Scanning", "Batch"}) ~> ScanOver

\* a run over four batches has reported with a true positive while a thread
\* of one of its first three batches has failed and another has not ended
C14_Witness ==
    /\ pc = "Reported"
    /\ batch_i = 4
    /\ plots /\ env.save_dir
    /\ ~NoTruePositive
    /\ failed
    /\ tasks # {}
    /\ \E t \in tasks : "self.pred_masks[0]" \in t.args

\* C15: what a run returns is what a new evaluator returns for the same
\* batches: the metrics of the records of this run and the time spent in this
\* run divided by the images of this run.
C15_RunsIndependent ==
    pc = "Reported" =>
        ret = ReturnOf(RecordsOf(scanned), Len(scanned),
                       [i \in 1..3 |-> dt[i] - dt_start[i]])

====
